---- MODULE Spec2Model ----
(***************************************************************************)
(* Consultancy Billing & Ledger System (src/app.py).                       *)
(*                                                                         *)
(* The state is the SQLite database (customers, services, payments, the    *)
(* service catalog and their id sequences), the wall clock that            *)
(* CURRENT_TIMESTAMP reads, and the response of the last request.  Each    *)
(* Flask route is one action; SpecConcurrent also runs bill and            *)
(* download_pdf statement by statement, with inflight as the request that  *)
(* is under way.                                                           *)
(*                                                                         *)
(* Text is a sequence of one-character strings, so that slicing,           *)
(* formatting and ORDER BY on a TEXT column are computed as the code       *)
(* computes them.  Money is counted in half rupees (an amount of 3 is      *)
(* Rs. 1.50): every such value is exact in binary floating point, and the  *)
(* ',.0f' presentation format has to round it.                             *)
(***************************************************************************)
EXTENDS Integers, Sequences, FiniteSets, TLC

VARIABLES customers, services, payments,
          nextCustomerId, nextServiceId, nextPaymentId,
          now, resp,
          catalog, nextCatalogId, inflight

vars == <<customers, services, payments,
          nextCustomerId, nextServiceId, nextPaymentId, now, resp,
          catalog, nextCatalogId, inflight>>

(***************************************************************************)
(* Bound of the model.                                                     *)
(***************************************************************************)
\* rows that are inserted into services and payments together
MaxRows == 3

(***************************************************************************)
(* Request inputs.  Amounts are in half rupees.                            *)
(***************************************************************************)
\* <int:customer_id> of the URL; an id need not name an existing customer
CustomerIdInputs == {1, 2}

\* 'Om  Sai_K': two spaces in a row and an underscore of its own
NameInputs == { <<"O", "m", " ", " ", "S", "a", "i", "_", "K">> }

\* the form of add_services: customer_id, service_name (free text), charge
\* Rs. 100, Rs. 200, Rs. 1000.50 for customer 1; Rs. 200 for customer 2
ServiceInputs ==
    { <<1, "Xerox", 200>>, <<1, "Agreement", 400>>, <<1, "Xerox", 2001>>,
      <<2, "TOTAL CHARGES", 400>> }

EarlyDate == <<"2", "0", "2", "3", "-", "1", "2", "-", "3", "1">>
LateDate == <<"2", "0", "2", "4", "-", "0", "1", "-", "1", "0">>

\* the form of add_payment: customer_id, date, amount
\* Rs. 150 and Rs. 1000.50 for customer 1; Rs. 150 for customer 2
PaymentInputs ==
    { <<1, EarlyDate, 300>>, <<1, LateDate, 300>>,
      <<1, EarlyDate, 2001>>, <<1, LateDate, 2001>>,
      <<2, LateDate, 300>> }

(***************************************************************************)
(* Text helpers.                                                           *)
(***************************************************************************)
Digits == <<"0", "1", "2", "3", "4", "5", "6", "7", "8", "9">>

\* the characters that occur in dates and timestamps, in code-point order
CharOrder == <<" ", "-", "0", "1", "2", "3", "4", "5", "6", "7", "8", "9", ":">>

CharCode(c) == CHOOSE i \in 1..Len(CharOrder) : CharOrder[i] = c

DigitValue(c) == CharCode(c) - 3

\* s < t as SQLite's BINARY collation and Python compare two strings
RECURSIVE StrLess(_, _)
StrLess(s, t) ==
    IF t = <<>> THEN FALSE
    ELSE IF s = <<>> THEN TRUE
    ELSE IF Head(s) = Head(t) THEN StrLess(Tail(s), Tail(t))
    ELSE CharCode(Head(s)) < CharCode(Head(t))

\* s[:n]
Prefix(s, n) == SubSeq(s, 1, IF n < Len(s) THEN n ELSE Len(s))

\* the sequences that list every element of the set S exactly once
Orderings(S) ==
    { s \in [1..Cardinality(S) -> S] :
        \A i, j \in 1..Cardinality(S) : i # j => s[i] # s[j] }

(***************************************************************************)
(* f"{x:,.0f}" for x counted in half rupees.                               *)
(***************************************************************************)
\* round-half-to-even of h/2, h >= 0
RoundHalfEven(h) ==
    LET q == h \div 2
    IN  IF h % 2 = 0 THEN q
        ELSE IF q % 2 = 0 THEN q ELSE q + 1

RECURSIVE Decimal(_)
Decimal(n) ==
    IF n < 10 THEN <<Digits[n + 1]>>
    ELSE Decimal(n \div 10) \o <<Digits[(n % 10) + 1]>>

ThreeDigits(n) ==
    <<Digits[(n \div 100) + 1], Digits[((n \div 10) % 10) + 1], Digits[(n % 10) + 1]>>

RECURSIVE Grouped(_)
Grouped(n) ==
    IF n < 1000 THEN Decimal(n)
    ELSE Grouped(n \div 1000) \o <<",">> \o ThreeDigits(n % 1000)

FormatAmount(x) ==
    IF x < 0 THEN <<"-">> \o Grouped(RoundHalfEven(0 - x))
    ELSE Grouped(RoundHalfEven(x))

(***************************************************************************)
(* The clock and CURRENT_TIMESTAMP.  The clock counts half days from       *)
(* 2024-01-01 00:00:00, so two timestamps can share their date.            *)
(***************************************************************************)
CurrentTimestamp(t) ==
    <<"2", "0", "2", "4", "-", "0", "1", "-", "0", Digits[(t \div 2) + 2], " ">>
    \o (IF t % 2 = 0 THEN <<"0", "0">> ELSE <<"1", "2">>)
    \o <<":", "0", "0", ":", "0", "0">>

\* what the clock reads at the next insert into services: half a day has
\* passed since the last one
ClockReads == {now + 1}

RowsInserted == (nextServiceId - 1) + (nextPaymentId - 1)

(***************************************************************************)
(* Rows and queries.                                                       *)
(***************************************************************************)
\* conn.execute(...).fetchone() that found no row
None == [id |-> 0]

\* SELECT * FROM customers WHERE id = ?  (fetchone)
SelectCustomer(customer_id) ==
    IF \E c \in customers : c.id = customer_id
    THEN CHOOSE c \in customers : c.id = customer_id
    ELSE None

\* SELECT * FROM services WHERE customer_id = ?
\* there is no ORDER BY: the rows come back in an order the storage picks
SelectServices(customer_id) ==
    Orderings({ s \in services : s.customer_id = customer_id })

\* the payments query without its ORDER BY date: rows in insertion order
SelectPaymentsById(customer_id) ==
    { p \in Orderings({ q \in payments : q.customer_id = customer_id }) :
        \A i, j \in 1..Len(p) : i < j => p[i].id < p[j].id }

\* SELECT * FROM payments WHERE customer_id = ? ORDER BY date
\* rows with equal dates come back in an order the storage picks
SelectPayments(customer_id) ==
    { p \in Orderings({ q \in payments : q.customer_id = customer_id }) :
        \A i, j \in 1..Len(p) : i < j => ~StrLess(p[j].date, p[i].date) }

\* sum(service['charge'] for service in services)
RECURSIVE SumCharges(_)
SumCharges(rows) ==
    IF rows = <<>> THEN 0 ELSE Head(rows).charge + SumCharges(Tail(rows))

\* sum(payment['amount'] for payment in payments)
RECURSIVE SumAmounts(_)
SumAmounts(rows) ==
    IF rows = <<>> THEN 0 ELSE Head(rows).amount + SumAmounts(Tail(rows))

\* a balance that is clamped at zero when the customer has overpaid
BalanceClamped(total_charges, total_received) ==
    IF total_charges > total_received THEN total_charges - total_received ELSE 0

\* balance = total_charges - total_received
Balance(total_charges, total_received) == total_charges - total_received

(***************************************************************************)
(* generate_ledger_pdf: the ledger table and the summary line.             *)
(***************************************************************************)
LedgerHeader ==
    [date |-> <<"Date">>, particulars |-> "Particulars",
     credit |-> <<"Credit (Rs.)">>, received |-> <<"Received (Rs.)">>,
     balance |-> <<"Balance (Rs.)">>]

\* a service row whose balance column shows the charge, not the running sum
ServiceRowShowsCharge(service, running_balance) ==
    [date |-> IF service.created_at # <<>>
              THEN Prefix(service.created_at, 10) ELSE <<"-">>,
     particulars |-> service.service_name,
     credit |-> FormatAmount(service.charge),
     received |-> <<"-">>,
     balance |-> FormatAmount(service.charge)]

\* one pass of "for service in services"
ServiceRow(service, running_balance) ==
    [date |-> IF service.created_at # <<>>
              THEN Prefix(service.created_at, 10) ELSE <<"-">>,
     particulars |-> service.service_name,
     credit |-> FormatAmount(service.charge),
     received |-> <<"-">>,
     balance |-> FormatAmount(running_balance)]

\* the loop over services with "running_balance = charge" for "+="
RECURSIVE ServiceLoopAssigns(_, _)
ServiceLoopAssigns(rows, st) ==
    IF rows = <<>> THEN st
    ELSE LET running_balance == Head(rows).charge
         IN  ServiceLoopAssigns(Tail(rows),
                 [running_balance |-> running_balance,
                  ledger_data |-> Append(st.ledger_data,
                                         ServiceRow(Head(rows), running_balance))])

\* the loop over services; st is [running_balance, ledger_data]
RECURSIVE ServiceLoop(_, _)
ServiceLoop(rows, st) ==
    IF rows = <<>> THEN st
    ELSE LET running_balance == st.running_balance + Head(rows).charge
         IN  ServiceLoop(Tail(rows),
                 [running_balance |-> running_balance,
                  ledger_data |-> Append(st.ledger_data,
                                         ServiceRow(Head(rows), running_balance))])

\* the TOTAL CHARGES row without its "if services:" guard
TotalChargesRowsAlways(svcs, total_charges) ==
    << [date |-> <<>>, particulars |-> "TOTAL CHARGES",
        credit |-> FormatAmount(total_charges),
        received |-> <<"-">>,
        balance |-> FormatAmount(total_charges)] >>

\* "if services:" appends the TOTAL CHARGES row
TotalChargesRows(svcs, total_charges) ==
    IF svcs # <<>>
    THEN << [date |-> <<>>, particulars |-> "TOTAL CHARGES",
             credit |-> FormatAmount(total_charges),
             received |-> <<"-">>,
             balance |-> FormatAmount(total_charges)] >>
    ELSE <<>>

\* one pass of "for payment in payments"
PaymentRow(payment, running_balance) ==
    [date |-> payment.date,
     particulars |-> "Payment Received",
     credit |-> <<"-">>,
     received |-> FormatAmount(payment.amount),
     balance |-> FormatAmount(running_balance)]

\* the loop over payments with "+=" for "-="
RECURSIVE PaymentLoopAdds(_, _)
PaymentLoopAdds(rows, st) ==
    IF rows = <<>> THEN st
    ELSE LET running_balance == st.running_balance + Head(rows).amount
         IN  PaymentLoopAdds(Tail(rows),
                 [running_balance |-> running_balance,
                  ledger_data |-> Append(st.ledger_data,
                                         PaymentRow(Head(rows), running_balance))])

\* the loop over payments that appends the row before it subtracts
RECURSIVE PaymentLoopStale(_, _)
PaymentLoopStale(rows, st) ==
    IF rows = <<>> THEN st
    ELSE LET running_balance == st.running_balance - Head(rows).amount
         IN  PaymentLoopStale(Tail(rows),
                 [running_balance |-> running_balance,
                  ledger_data |-> Append(st.ledger_data,
                                         PaymentRow(Head(rows), st.running_balance))])

\* the loop over payments
RECURSIVE PaymentLoop(_, _)
PaymentLoop(rows, st) ==
    IF rows = <<>> THEN st
    ELSE LET running_balance == st.running_balance - Head(rows).amount
         IN  PaymentLoop(Tail(rows),
                 [running_balance |-> running_balance,
                  ledger_data |-> Append(st.ledger_data,
                                         PaymentRow(Head(rows), running_balance))])

FinalBalanceRow(balance) ==
    [date |-> <<>>, particulars |-> "FINAL BALANCE DUE",
     credit |-> <<>>, received |-> <<>>,
     balance |-> <<"Rs. ">> \o FormatAmount(balance)]

\* the summary with "balance <= 0" for "balance == 0"
BalanceTextNotPositive(balance) ==
    IF balance <= 0
    THEN <<"ACCOUNT FULLY PAID - Balance: Rs. 0/-">>
    ELSE <<"Outstanding Balance: Rs. ">> \o FormatAmount(balance) \o <<"/-">>

\* the paragraph under the table
BalanceText(balance) ==
    IF balance = 0
    THEN <<"ACCOUNT FULLY PAID - Balance: Rs. 0/-">>
    ELSE <<"Outstanding Balance: Rs. ">> \o FormatAmount(balance) \o <<"/-">>

\* generate_ledger_pdf with the payment loop ahead of the TOTAL CHARGES row
GenerateLedgerPdfTotalLast(customer, svcs, pays, total_charges, total_received, balance) ==
    IF customer = None THEN [kind |-> "error", status |-> 500]
    ELSE
    LET afterServices ==
            ServiceLoop(svcs, [running_balance |-> 0,
                               ledger_data |-> <<LedgerHeader>>])
        afterPayments == PaymentLoop(pays, afterServices)
    IN  [kind |-> "pdf", status |-> 200,
         customer_name |-> customer.name,
         ledger_data |-> Append(afterPayments.ledger_data
                                \o TotalChargesRows(svcs, total_charges),
                                FinalBalanceRow(balance)),
         running_balance |-> afterPayments.running_balance,
         balance_text |-> BalanceText(balance)]

\* the document that generate_ledger_pdf builds, with its local
\* running_balance; customer['name'] on an absent customer raises TypeError
GenerateLedgerPdf(customer, svcs, pays, total_charges, total_received, balance) ==
    IF customer = None THEN [kind |-> "error", status |-> 500]
    ELSE
    LET afterServices ==
            ServiceLoop(svcs, [running_balance |-> 0,
                               ledger_data |-> <<LedgerHeader>>])
        afterTotal ==
            [running_balance |-> afterServices.running_balance,
             ledger_data |-> afterServices.ledger_data
                             \o TotalChargesRows(svcs, total_charges)]
        afterPayments == PaymentLoop(pays, afterTotal)
    IN  [kind |-> "pdf", status |-> 200,
         customer_name |-> customer.name,
         ledger_data |-> Append(afterPayments.ledger_data, FinalBalanceRow(balance)),
         running_balance |-> afterPayments.running_balance,
         balance_text |-> BalanceText(balance)]

(***************************************************************************)
(* The service catalog and the request under way.                          *)
(***************************************************************************)
\* the names that init_db inserts into service_catalog, default_charge 0
CatalogSeed ==
    <<"Xerox", "ITR", "Search Report", "Valuation Report",
      "Plan Design & Estimate", "Rubber Stamp", "Agreement", "Typing",
      "Data Entry", "Stamp Duty", "Aadhaar-PAN Colour Xerox", "7/12",
      "Guarantor for Mortgage", "Affidavit", "Vendor Fee", "Dast Xerox",
      "Consultancy Charge (2%)">>

\* no bill or download_pdf request is between two of its statements
Idle == [pc |-> "idle"]

\* the records of the customer of the request under way, in tables svc, pay
Snapshot(customer_id, svc, pay) ==
    << { s \in svc : s.customer_id = customer_id },
       { p \in pay : p.customer_id = customer_id } >>

\* a committed write during a request: inflight.seen collects every state of
\* the customer's records that has existed since the request began
Observe(svc, pay) ==
    IF inflight.pc = "idle" THEN inflight
    ELSE [inflight EXCEPT
            !.seen = @ \cup {Snapshot(inflight.customer_id, svc, pay)}]

(***************************************************************************)
(* The routes.                                                             *)
(***************************************************************************)
Redirect(endpoint, customer_id) ==
    [kind |-> "redirect", status |-> 302, endpoint |-> endpoint,
     customer_id |-> customer_id]

Init ==
    /\ customers = {}
    /\ services = {}
    /\ payments = {}
    /\ nextCustomerId = 1
    /\ nextServiceId = 1
    /\ nextPaymentId = 1
    /\ now = 0
    /\ resp = [kind |-> "none", status |-> 0]
    /\ catalog = { [id |-> i, service_name |-> CatalogSeed[i],
                    default_charge |-> 0, is_active |-> 1] :
                  i \in 1..Len(CatalogSeed) }
    /\ nextCatalogId = Len(CatalogSeed) + 1
    /\ inflight = Idle

\* POST /add_customer
AddCustomer(name) ==
    /\ nextCustomerId \in CustomerIdInputs
    /\ customers' = customers \cup {[id |-> nextCustomerId, name |-> name]}
    /\ nextCustomerId' = nextCustomerId + 1
    /\ resp' = Redirect("index", 0)
    /\ UNCHANGED <<services, payments, nextServiceId, nextPaymentId, now,
                   catalog, nextCatalogId, inflight>>

\* POST /add_services/<customer_id>; created_at defaults to the insert time
AddServices(customer_id, service_name, charge) ==
    /\ RowsInserted < MaxRows
    /\ \E t \in ClockReads :
         /\ now' = t
         /\ services' = services \cup
                {[id |-> nextServiceId, customer_id |-> customer_id,
                  service_name |-> service_name, charge |-> charge,
                  created_at |-> CurrentTimestamp(t)]}
    /\ nextServiceId' = nextServiceId + 1
    /\ resp' = Redirect("add_services", customer_id)
    /\ inflight' = Observe(services', payments)
    /\ UNCHANGED <<customers, payments, nextCustomerId, nextPaymentId,
                   catalog, nextCatalogId>>

\* POST /add_payment/<customer_id>
AddPayment(customer_id, date, amount) ==
    /\ RowsInserted < MaxRows
    /\ payments' = payments \cup
            {[id |-> nextPaymentId, customer_id |-> customer_id,
              date |-> date, amount |-> amount]}
    /\ nextPaymentId' = nextPaymentId + 1
    /\ resp' = Redirect("add_payment", customer_id)
    /\ inflight' = Observe(services, payments')
    /\ UNCHANGED <<customers, services, nextCustomerId, nextServiceId, now,
                   catalog, nextCatalogId>>

\* the context that bill hands to the bill.html template
BillContext(customer_id, customer, svcs, pays) ==
    LET total_charges == SumCharges(svcs)
        total_received == SumAmounts(pays)
    IN  [kind |-> "bill", status |-> 200, customer_id |-> customer_id,
         customer |-> customer, services |-> svcs, payments |-> pays,
         total_charges |-> total_charges,
         total_received |-> total_received,
         balance |-> Balance(total_charges, total_received)]

\* GET /bill/<customer_id>
Bill(customer_id) ==
    /\ \E svcs \in SelectServices(customer_id) :
       \E pays \in SelectPayments(customer_id) :
         resp' = BillContext(customer_id, SelectCustomer(customer_id), svcs, pays)
    /\ UNCHANGED <<customers, services, payments,
                   nextCustomerId, nextServiceId, nextPaymentId, now,
                   catalog, nextCatalogId, inflight>>

\* datetime.now().strftime('%Y%m%d') when the clock reads t
StrftimeYmd(t) ==
    <<"2", "0", "2", "4", "0", "1", "0", Digits[(t \div 2) + 2]>>

\* name.replace(' ', '_', 1): only the first space is replaced
RECURSIVE ReplaceFirstSpace(_)
ReplaceFirstSpace(name) ==
    IF name = <<>> THEN <<>>
    ELSE IF Head(name) = " " THEN <<"_">> \o Tail(name)
    ELSE <<Head(name)>> \o ReplaceFirstSpace(Tail(name))

\* name.replace(' ', '_')
RECURSIVE ReplaceSpaces(_)
ReplaceSpaces(name) ==
    IF name = <<>> THEN <<>>
    ELSE <<IF Head(name) = " " THEN "_" ELSE Head(name)>>
         \o ReplaceSpaces(Tail(name))

\* f"Ledger_{customer['name'].replace(' ', '_')}_{now:%Y%m%d}.pdf"
Filename(name, t) ==
    <<"L", "e", "d", "g", "e", "r", "_">> \o ReplaceSpaces(name)
    \o <<"_">> \o StrftimeYmd(t) \o <<".", "p", "d", "f">>

\* what download_pdf computes and sends for the rows it selected
PdfResponse(customer_id, customer, svcs, pays) ==
    LET total_charges == SumCharges(svcs)
        total_received == SumAmounts(pays)
        balance == Balance(total_charges, total_received)
        pdf == GenerateLedgerPdf(customer, svcs, pays,
                                 total_charges, total_received, balance)
    IN  IF pdf.kind = "error" THEN pdf
        ELSE [kind |-> "pdf", status |-> 200, customer_id |-> customer_id,
              customer |-> customer, services |-> svcs, payments |-> pays,
              total_charges |-> total_charges,
              total_received |-> total_received,
              balance |-> balance,
              ledger_data |-> pdf.ledger_data,
              running_balance |-> pdf.running_balance,
              balance_text |-> pdf.balance_text,
              download_name |-> Filename(customer.name, now)]

\* GET /download_pdf/<customer_id>
DownloadPdf(customer_id) ==
    /\ \E svcs \in SelectServices(customer_id) :
       \E pays \in SelectPayments(customer_id) :
         resp' = PdfResponse(customer_id, SelectCustomer(customer_id), svcs, pays)
    /\ UNCHANGED <<customers, services, payments,
                   nextCustomerId, nextServiceId, nextPaymentId, now,
                   catalog, nextCatalogId, inflight>>

Next ==
    \/ \E name \in NameInputs : AddCustomer(name)
    \/ \E form \in ServiceInputs : AddServices(form[1], form[2], form[3])
    \/ \E form \in PaymentInputs : AddPayment(form[1], form[2], form[3])
    \/ \E customer_id \in CustomerIdInputs : Bill(customer_id)
    \/ \E customer_id \in CustomerIdInputs : DownloadPdf(customer_id)

Spec == Init /\ [][Next]_vars

(***************************************************************************)
(* What the properties below speak about.                                  *)
(***************************************************************************)
IsLedger == resp.kind \in {"bill", "pdf"}

IsPdf == resp.kind = "pdf"

\* the customer's records in the database
ChargesOf(customer_id) == { s \in services : s.customer_id = customer_id }

PaymentsOf(customer_id) == { p \in payments : p.customer_id = customer_id }

\* the exact sum of a set of charges, in any order of summation
RECURSIVE ChargeSetSum(_)
ChargeSetSum(S) ==
    IF S = {} THEN 0
    ELSE LET r == CHOOSE r \in S : TRUE IN r.charge + ChargeSetSum(S \ {r})

RECURSIVE AmountSetSum(_)
AmountSetSum(S) ==
    IF S = {} THEN 0
    ELSE LET r == CHOOSE r \in S : TRUE IN r.amount + AmountSetSum(S \ {r})

\* the ledger table without its header row
LedgerRows == Tail(resp.ledger_data)

NumCharges == Len(resp.services)

NumPayments == Len(resp.payments)

\* the index in LedgerRows of the row before the first payment row
PaymentOffset == NumCharges + (IF NumCharges > 0 THEN 1 ELSE 0)

\* the role of a row, read from its cells: the final row is the one with an
\* empty credit cell, a payment row has '-' as credit, the subtotal row has an
\* empty date; a charge row has none of these, whatever its free-text label
RowRole(row) ==
    IF row.credit = <<>> THEN "balance-final"
    ELSE IF row.credit = <<"-">> THEN "payment"
    ELSE IF row.date = <<>> THEN "charge-subtotal"
    ELSE "charge"

\* the calendar day 'YYYY-MM-DD' as the number YYYYMMDD
DateValue(d) ==
    LET v(i) == DigitValue(d[i])
    IN  (((v(1) * 10 + v(2)) * 10 + v(3)) * 10 + v(4)) * 10000
        + (v(6) * 10 + v(7)) * 100 + (v(9) * 10 + v(10))

DateEarlier(d, e) == DateValue(d) < DateValue(e)

\* where a record stands in a list that holds it
PositionIn(row, list) == CHOOSE i \in 1..Len(list) : list[i] = row

C3_ChargesInCreationOrder ==
    IsPdf =>
        \A i, j \in 1..NumCharges :
            StrLess(resp.services[i].created_at, resp.services[j].created_at)
            => /\ i < j
               /\ LedgerRows[i].credit = FormatAmount(resp.services[i].charge)
               /\ LedgerRows[j].credit = FormatAmount(resp.services[j].charge)

(***************************************************************************)
(* C4: in bill and download_pdf the payments come in ascending order of    *)
(* their payment date, not in insertion order: a payment with an earlier   *)
(* date stands before one with a later date, and the payment rows of the   *)
(* PDF ledger follow that order.                                           *)
(***************************************************************************)
C4_PaymentsInDateOrder ==
    IsLedger =>
        /\ { resp.payments[i] : i \in 1..NumPayments } = PaymentsOf(resp.customer_id)
        /\ \A P, Q \in PaymentsOf(resp.customer_id) :
             DateEarlier(P.date, Q.date)
             => PositionIn(P, resp.payments) < PositionIn(Q, resp.payments)
        /\ (IsPdf =>
              \A i \in 1..NumPayments :
                 /\ LedgerRows[PaymentOffset + i].date = resp.payments[i].date
                 /\ LedgerRows[PaymentOffset + i].received
                      = FormatAmount(resp.payments[i].amount))

\* the payment entered later carries the earlier date
C4_Witness ==
    /\ IsPdf
    /\ \E P, Q \in PaymentsOf(resp.customer_id) :
         /\ P.id > Q.id
         /\ DateEarlier(P.date, Q.date)
         /\ P.amount # Q.amount

(***************************************************************************)
(* C5: the balance column of each charge row shows the sum of that charge  *)
(* and the charges in the rows before it, no payment subtracted; on the    *)
(* last charge row it shows total_charges.                                 *)
(***************************************************************************)
C5_ChargeRowsAccumulate ==
    IsPdf =>
        /\ \A i \in 1..NumCharges :
             /\ RowRole(LedgerRows[i]) = "charge"
             /\ LedgerRows[i].balance
                  = FormatAmount(SumCharges(SubSeq(resp.services, 1, i)))
        /\ (NumCharges > 0 =>
              LedgerRows[NumCharges].balance = FormatAmount(resp.total_charges))

\* two charges and a payment
C5_Witness ==
    /\ IsPdf
    /\ NumCharges = 2
    /\ NumPayments = 1
    /\ LedgerRows[2].balance # LedgerRows[2].credit

SubtotalRows == { i \in 1..Len(LedgerRows) : RowRole(LedgerRows[i]) = "charge-subtotal" }

C7_SubtotalRowIffCharges ==
    IsPdf =>
        /\ (SubtotalRows # {}) <=> (ChargesOf(resp.customer_id) # {})
        /\ Cardinality(SubtotalRows) <= 1
        /\ \A i \in SubtotalRows :
             /\ i = Cardinality(ChargesOf(resp.customer_id)) + 1
             /\ RowRole(LedgerRows[i - 1]) = "charge"
             /\ LedgerRows[i].particulars = "TOTAL CHARGES"
             /\ LedgerRows[i].credit = FormatAmount(resp.total_charges)
             /\ LedgerRows[i].balance = FormatAmount(resp.total_charges)
             /\ LedgerRows[i - 1].balance = LedgerRows[i].balance
             /\ \A k \in 1..Len(LedgerRows) :
                  RowRole(LedgerRows[k]) = "payment" => i < k

\* a charge whose free-text label is itself 'TOTAL CHARGES', and a payment
C7_Witness ==
    /\ IsPdf
    /\ NumCharges = 1
    /\ resp.services[1].service_name = "TOTAL CHARGES"
    /\ NumPayments = 1
    /\ SubtotalRows = {2}

(***************************************************************************)
(* C8: the rows of the ledger are the charge rows, then the subtotal row   *)
(* if there is a charge, then the payment rows, then one final balance row *)
(* as the last row; with no charges the payments and the final row are     *)
(* still there, and with no records the final row stands alone and the     *)
(* totals are 0.                                                           *)
(***************************************************************************)
ExpectedRoles(n, m) ==
    [i \in 1..(n + (IF n > 0 THEN 1 ELSE 0) + m + 1) |->
        IF i <= n THEN "charge"
        ELSE IF n > 0 /\ i = n + 1 THEN "charge-subtotal"
        ELSE IF i <= n + (IF n > 0 THEN 1 ELSE 0) + m THEN "payment"
        ELSE "balance-final"]

C8_LedgerShape ==
    IsPdf =>
        LET n == Cardinality(ChargesOf(resp.customer_id))
            m == Cardinality(PaymentsOf(resp.customer_id))
        IN  /\ Len(LedgerRows) = n + (IF n > 0 THEN 1 ELSE 0) + m + 1
            /\ [i \in 1..Len(LedgerRows) |-> RowRole(LedgerRows[i])]
                 = ExpectedRoles(n, m)
            /\ resp.ledger_data[1] = LedgerHeader
            /\ (n = 0 /\ m = 0 =>
                  /\ resp.total_charges = 0
                  /\ resp.total_received = 0
                  /\ resp.balance = 0
                  /\ LedgerRows = <<FinalBalanceRow(0)>>)

\* no charges and two payments: payment rows and the final row, no subtotal
C8_Witness ==
    /\ IsPdf
    /\ NumCharges = 0
    /\ NumPayments = 2
    /\ Len(LedgerRows) = 3

C10_SummaryLine ==
    IsPdf =>
        /\ (resp.balance_text = <<"ACCOUNT FULLY PAID - Balance: Rs. 0/-">>)
             <=> (resp.balance = 0)
        /\ (resp.balance # 0 =>
              /\ Head(resp.balance_text) = "Outstanding Balance: Rs. "
              /\ (resp.balance_text[2] = "-") <=> (resp.balance < 0)
              /\ resp.balance_text
                   = <<"Outstanding Balance: Rs. ">>
                     \o (IF resp.balance < 0 THEN <<"-">> ELSE <<>>)
                     \o Grouped(RoundHalfEven(IF resp.balance < 0
                                              THEN 0 - resp.balance
                                              ELSE resp.balance))
                     \o <<"/-">>)

\* an overpayment of Rs. 900.50 is reported as outstanding, with its sign
C10_Witness ==
    /\ IsPdf
    /\ resp.balance = 200 - 2001
    /\ resp.balance_text
         = <<"Outstanding Balance: Rs. ", "-", "9", "0", "0", "/-">>

(***************************************************************************)
(* C11: bill and download_pdf answer a request for a customer id that is   *)
(* not in the customers table with a not-found response before they        *)
(* compute or render anything: no ledger is produced for an absent         *)
(* customer, and generate_ledger_pdf never runs (and so never raises) on   *)
(* one.                                                                    *)
(***************************************************************************)
C11_AbsentCustomerShortCircuits ==
    /\ (IsLedger => resp.customer # None)
    /\ resp.status # 500

(***************************************************************************)
(* Requests with arbitrary form input: the forms of Spec and, for          *)
(* customer 1, a charge of Rs. -100 and a payment of Rs. -150.             *)
(***************************************************************************)
FormServiceInputs == ServiceInputs \cup { <<1, "Xerox", 0 - 200>> }

FormPaymentInputs == PaymentInputs \cup { <<1, LateDate, 0 - 300>> }

NextForms ==
    \/ \E name \in NameInputs : AddCustomer(name)
    \/ \E form \in FormServiceInputs : AddServices(form[1], form[2], form[3])
    \/ \E form \in FormPaymentInputs : AddPayment(form[1], form[2], form[3])
    \/ \E customer_id \in CustomerIdInputs : Bill(customer_id)
    \/ \E customer_id \in CustomerIdInputs : DownloadPdf(customer_id)

SpecForms == Init /\ [][NextForms]_vars

(***************************************************************************)
(* C12: whatever the forms of add_services and add_payment carry, every    *)
(* charge and payment amount in the tables, and so every amount the ledger *)
(* computation reads, is non-negative: a request with a negative amount is *)
(* rejected and stores nothing.                                            *)
(***************************************************************************)
C12_StoredAmountsNonNegative ==
    /\ \A s \in services : s.charge >= 0
    /\ \A p \in payments : p.amount >= 0
    /\ (IsLedger =>
          /\ \A i \in 1..NumCharges : resp.services[i].charge >= 0
          /\ \A i \in 1..NumPayments : resp.payments[i].amount >= 0)

(***************************************************************************)
(* The catalog routes and the delete routes.                               *)
(***************************************************************************)
\* POST /service_catalog/add; service_name is UNIQUE, and the IntegrityError
\* of a second insert of a name is swallowed
AddCatalogService(service_name, default_charge) ==
    /\ IF \E c \in catalog : c.service_name = service_name
       THEN UNCHANGED <<catalog, nextCatalogId>>
       ELSE /\ catalog' = catalog \cup
                    {[id |-> nextCatalogId, service_name |-> service_name,
                      default_charge |-> default_charge, is_active |-> 1]}
            /\ nextCatalogId' = nextCatalogId + 1
    /\ resp' = Redirect("service_catalog", 0)
    /\ UNCHANGED <<customers, services, payments,
                   nextCustomerId, nextServiceId, nextPaymentId, now, inflight>>

\* an edit that also reprices the charges that carry the entry's name
EditCatalogServiceRetroactive(service_id, default_charge, is_active) ==
    /\ catalog' = { IF c.id = service_id
                    THEN [c EXCEPT !.default_charge = default_charge,
                                   !.is_active = is_active]
                    ELSE c : c \in catalog }
    /\ services' = { IF \E c \in catalog : c.id = service_id
                                           /\ c.service_name = s.service_name
                     THEN [s EXCEPT !.charge = default_charge]
                     ELSE s : s \in services }
    /\ resp' = Redirect("service_catalog", 0)
    /\ UNCHANGED <<customers, payments, nextCatalogId,
                   nextCustomerId, nextServiceId, nextPaymentId, now, inflight>>

\* POST /service_catalog/edit/<service_id>
EditCatalogService(service_id, default_charge, is_active) ==
    /\ catalog' = { IF c.id = service_id
                    THEN [c EXCEPT !.default_charge = default_charge,
                                   !.is_active = is_active]
                    ELSE c : c \in catalog }
    /\ resp' = Redirect("service_catalog", 0)
    /\ UNCHANGED <<customers, services, payments, nextCatalogId,
                   nextCustomerId, nextServiceId, nextPaymentId, now, inflight>>

\* SELECT customer_id FROM services WHERE id = ?  (fetchone)
SelectService(service_id) ==
    IF \E s \in services : s.id = service_id
    THEN CHOOSE s \in services : s.id = service_id
    ELSE None

\* POST /delete_service/<service_id>; from_bill is "'bill' in referrer"
DeleteService(service_id, from_bill) ==
    LET service == SelectService(service_id)
    IN  /\ IF service # None
           THEN /\ services' = { s \in services : s.id # service_id }
                /\ resp' = Redirect(IF from_bill THEN "bill" ELSE "add_services",
                                    service.customer_id)
           ELSE /\ services' = services
                /\ resp' = [kind |-> "not_found", status |-> 404]
        /\ inflight' = Observe(services', payments)
        /\ UNCHANGED <<customers, payments, catalog, nextCatalogId,
                       nextCustomerId, nextServiceId, nextPaymentId, now>>

\* the delete loop without "AND customer_id = ?"
RECURSIVE DeleteLoopAnyCustomer(_, _, _)
DeleteLoopAnyCustomer(service_ids, table, customer_id) ==
    IF service_ids = <<>> THEN table
    ELSE DeleteLoopAnyCustomer(Tail(service_ids),
                    { s \in table : s.id # Head(service_ids) },
                    customer_id)

\* for service_id in service_ids:
\*     DELETE FROM services WHERE id = ? AND customer_id = ?
RECURSIVE DeleteLoop(_, _, _)
DeleteLoop(service_ids, table, customer_id) ==
    IF service_ids = <<>> THEN table
    ELSE DeleteLoop(Tail(service_ids),
                    { s \in table : ~(s.id = Head(service_ids)
                                      /\ s.customer_id = customer_id) },
                    customer_id)

\* POST /delete_multiple_services/<customer_id>
DeleteMultipleServices(customer_id, service_ids) ==
    /\ services' = IF service_ids = <<>> THEN services
                   ELSE DeleteLoop(service_ids, services, customer_id)
    /\ resp' = Redirect("bill", customer_id)
    /\ inflight' = Observe(services', payments)
    /\ UNCHANGED <<customers, payments, catalog, nextCatalogId,
                   nextCustomerId, nextServiceId, nextPaymentId, now>>

(***************************************************************************)
(* The writing routes together, without the two reports.                   *)
(***************************************************************************)
\* service_name and default_charge (half rupees) of the catalog form
CatalogAddInputs == { <<"Xerox", 500>>, <<"Notary", 300>> }

\* <int:service_id>, default_charge and is_active of the edit form
CatalogEditInputs == { <<1, 500, 1>>, <<1, 0, 0>>, <<18, 300, 0>>, <<99, 500, 1>> }

\* <int:service_id> of delete_service
ServiceIdInputs == {1, 2, 9}

\* request.form.getlist('service_ids')
ServiceIdListInputs == { <<>>, <<1>>, <<2, 1>>, <<2, 9>> }

WritePaymentInputs == { <<1, LateDate, 300>>, <<2, LateDate, 300>> }

NextWrites ==
    \/ \E name \in NameInputs : AddCustomer(name)
    \/ \E form \in ServiceInputs : AddServices(form[1], form[2], form[3])
    \/ \E form \in WritePaymentInputs : AddPayment(form[1], form[2], form[3])
    \/ \E form \in CatalogAddInputs : AddCatalogService(form[1], form[2])
    \/ \E form \in CatalogEditInputs :
         EditCatalogService(form[1], form[2], form[3])
    \/ \E service_id \in ServiceIdInputs, from_bill \in BOOLEAN :
         DeleteService(service_id, from_bill)
    \/ \E customer_id \in CustomerIdInputs, service_ids \in ServiceIdListInputs :
         DeleteMultipleServices(customer_id, service_ids)

SpecWrites == Init /\ [][NextWrites]_vars

(***************************************************************************)
(* C13: a charge is a snapshot that nothing rewrites: in every step, each  *)
(* row of services is either still there with the same label, amount and   *)
(* customer, or its id is gone and the step is a delete_service or         *)
(* delete_multiple_services request.  Catalog edits, other inserts and     *)
(* new customers leave it as it is.                                        *)
(***************************************************************************)
IsDeleteStep ==
    \/ \E service_id \in ServiceIdInputs, from_bill \in BOOLEAN :
         DeleteService(service_id, from_bill)
    \/ \E customer_id \in CustomerIdInputs, service_ids \in ServiceIdListInputs :
         DeleteMultipleServices(customer_id, service_ids)

C13_ChargesAreImmutable ==
    [][ \A s \in services :
          \/ s \in services'
          \/ /\ ~(\E t \in services' : t.id = s.id)
             /\ IsDeleteStep ]_vars

\* the catalog entry 'Xerox' was just repriced to Rs. 250 while a charge
\* labelled 'Xerox' of Rs. 100 exists
C13_Witness ==
    /\ resp.kind = "redirect"
    /\ resp.endpoint = "service_catalog"
    /\ \E s \in services, c \in catalog :
         /\ c.service_name = s.service_name
         /\ c.default_charge = 500
         /\ s.charge = 200

(***************************************************************************)
(* C16: a delete_multiple_services request of customer_id removes exactly  *)
(* the rows of services whose id was submitted and whose customer is       *)
(* customer_id, nothing else in any table, and nothing at all for an empty *)
(* list; a delete_service request removes exactly the row with the given   *)
(* id, and for an id that no row has it answers 404 and changes no table.  *)
(***************************************************************************)
C16_DeletionIsScoped ==
    [][ /\ \A customer_id \in CustomerIdInputs, service_ids \in ServiceIdListInputs :
             DeleteMultipleServices(customer_id, service_ids) =>
               /\ services' =
                    services \ { s \in services :
                                   /\ s.customer_id = customer_id
                                   /\ \E i \in 1..Len(service_ids) :
                                        service_ids[i] = s.id }
               /\ \A s \in services : s.customer_id # customer_id => s \in services'
               /\ (service_ids = <<>> => services' = services)
               /\ UNCHANGED <<customers, payments, catalog>>
        /\ \A service_id \in ServiceIdInputs, from_bill \in BOOLEAN :
             DeleteService(service_id, from_bill) =>
               /\ services' \subseteq services
               /\ \A s \in services : s \in services' <=> s.id # service_id
               /\ Cardinality(services \ services') <= 1
               /\ ((\A s \in services : s.id # service_id) =>
                     /\ resp'.status = 404
                     /\ services' = services)
               /\ UNCHANGED <<customers, payments, catalog>> ]_vars

\* customer 2's only charge has been deleted; the charge of customer 1
\* stays, also when its id was submitted along
C16_Witness ==
    /\ resp = Redirect("bill", 2)
    /\ nextServiceId = 3
    /\ Cardinality(services) = 1
    /\ \A s \in services : s.customer_id = 1
    /\ payments # {}

(***************************************************************************)
(* C14: the file name that download_pdf sends is 'Ledger_', the customer's *)
(* name with each space turned into an underscore and every other          *)
(* character kept, '_', the day of generation as YYYYMMDD, and '.pdf'.     *)
(***************************************************************************)
C14_DownloadName ==
    IsPdf =>
        LET name == resp.customer.name
            file == resp.download_name
            n == Len(resp.customer.name)
            stamp == CurrentTimestamp(now)
        IN  /\ Len(file) = 7 + n + 1 + 8 + 4
            /\ SubSeq(file, 1, 7) = <<"L", "e", "d", "g", "e", "r", "_">>
            /\ \A i \in 1..n :
                 file[7 + i] = IF name[i] = " " THEN "_" ELSE name[i]
            /\ file[8 + n] = "_"
            /\ SubSeq(file, 9 + n, 16 + n)
                 = SubSeq(stamp, 1, 4) \o SubSeq(stamp, 6, 7) \o SubSeq(stamp, 9, 10)
            /\ SubSeq(file, 17 + n, 20 + n) = <<".", "p", "d", "f">>

\* 'Om  Sai_K' on 2024-01-02 is sent as Ledger_Om__Sai_K_20240102.pdf
C14_Witness ==
    /\ IsPdf
    /\ now = 2
    /\ resp.download_name =
         <<"L", "e", "d", "g", "e", "r", "_",
           "O", "m", "_", "_", "S", "a", "i", "_", "K", "_",
           "2", "0", "2", "4", "0", "1", "0", "2", ".", "p", "d", "f">>

(***************************************************************************)
(* bill and download_pdf statement by statement.  Each request has its own *)
(* connection and each SELECT is a statement of its own, so the committed  *)
(* writes of other requests can fall between two of them.                  *)
(***************************************************************************)
RouteInputs == {"bill", "download_pdf"}

\* get_db_connection() and the SELECT on customers
BeginRequest(route, customer_id) ==
    /\ inflight.pc = "idle"
    /\ inflight' = [pc |-> "services", route |-> route,
                    customer_id |-> customer_id,
                    customer |-> SelectCustomer(customer_id),
                    services |-> <<>>, payments |-> <<>>,
                    seen |-> {Snapshot(customer_id, services, payments)}]
    /\ UNCHANGED <<customers, services, payments, catalog, nextCatalogId,
                   nextCustomerId, nextServiceId, nextPaymentId, now, resp>>

\* the SELECT on services
ReadServices ==
    /\ inflight.pc = "services"
    /\ \E svcs \in SelectServices(inflight.customer_id) :
         inflight' = [inflight EXCEPT !.services = svcs, !.pc = "payments"]
    /\ UNCHANGED <<customers, services, payments, catalog, nextCatalogId,
                   nextCustomerId, nextServiceId, nextPaymentId, now, resp>>

\* the SELECT on payments and conn.close()
ReadPayments ==
    /\ inflight.pc = "payments"
    /\ \E pays \in SelectPayments(inflight.customer_id) :
         inflight' = [inflight EXCEPT !.payments = pays, !.pc = "respond"]
    /\ UNCHANGED <<customers, services, payments, catalog, nextCatalogId,
                   nextCustomerId, nextServiceId, nextPaymentId, now, resp>>

\* the totals and the response, from the rows that were read
Respond ==
    /\ inflight.pc = "respond"
    /\ resp' = IF inflight.route = "bill"
               THEN BillContext(inflight.customer_id, inflight.customer,
                                inflight.services, inflight.payments)
               ELSE PdfResponse(inflight.customer_id, inflight.customer,
                                inflight.services, inflight.payments)
    /\ inflight' = Idle
    /\ UNCHANGED <<customers, services, payments, catalog, nextCatalogId,
                   nextCustomerId, nextServiceId, nextPaymentId, now>>

ConcurrentServiceInputs == { <<1, "Xerox", 200>>, <<2, "TOTAL CHARGES", 400>> }

NextConcurrent ==
    \/ \E name \in NameInputs : AddCustomer(name)
    \/ \E route \in RouteInputs, customer_id \in CustomerIdInputs :
         BeginRequest(route, customer_id)
    \/ ReadServices
    \/ ReadPayments
    \/ Respond
    \/ \E form \in ConcurrentServiceInputs :
         AddServices(form[1], form[2], form[3])
    \/ \E form \in WritePaymentInputs : AddPayment(form[1], form[2], form[3])
    \/ \E service_id \in ServiceIdInputs, from_bill \in BOOLEAN :
         DeleteService(service_id, from_bill)
    \/ \E customer_id \in CustomerIdInputs, service_ids \in ServiceIdListInputs :
         DeleteMultipleServices(customer_id, service_ids)

SpecConcurrent == Init /\ [][NextConcurrent]_vars

(***************************************************************************)
(* C15: the charges and the payments that one bill or download_pdf request *)
(* has read are together the customer's records in one state of the        *)
(* database that existed while the request ran, whatever add_services,     *)
(* delete_service, delete_multiple_services and add_payment requests ran   *)
(* in between.                                                             *)
(***************************************************************************)
C15_ReadsAreOneSnapshot ==
    inflight.pc = "respond" =>
        << { inflight.services[i] : i \in 1..Len(inflight.services) },
           { inflight.payments[i] : i \in 1..Len(inflight.payments) } >>
          \in inflight.seen

====
